---- MODULE Spec2Model ----
(***************************************************************************)
(* The song generation server (server/index.js): the in-memory store       *)
(* `songs`, the db.json snapshot, the three request handlers generate,     *)
(* retry and regenerate-video, the detached generationPipeline and the     *)
(* video sub-pipeline generateVideoForSong.                                *)
(*                                                                         *)
(* Node runs one handler or continuation at a time; a coroutine gives up   *)
(* the thread only at an await of real I/O (fs.writeFile, an adapter       *)
(* call, a timer).  Every action below is the code between two such        *)
(* awaits, and a task's pc names the await it is suspended at.             *)
(***************************************************************************)
EXTENDS Integers, Sequences, FiniteSets, TLC

(* ---------------- bounds ---------------- *)
MaxSongs == 2
MaxTasks == 2

(* ---------------- GenerationStatus ---------------- *)
GENERATING_LYRICS == "writing lyrics"
GENERATING_AUDIO == "composing music"
GENERATING_ART == "creating cover art"
GENERATING_VIDEO == "directing video"
POLLING_VIDEO == "rendering video"
COMPLETE == "complete"
ERROR == "error"

GenerationStatus ==
    {GENERATING_LYRICS, GENERATING_AUDIO, GENERATING_ART, GENERATING_VIDEO,
     POLLING_VIDEO, COMPLETE, ERROR}

\* JavaScript's undefined, for the string-valued fields.
Undef == "undefined"
\* A string that is no member of GenerationStatus.
Bogus == "bogus"

\* Truthiness of a string field: undefined and '' are falsy.
Truthy(v) == v # Undef /\ v # ""

(* ---------------- texts ---------------- *)
\* A text is a sequence of characters, so that trim() can be computed.
IsSpace(c) == c = " "

RECURSIVE TrimStart(_)
TrimStart(s) ==
    IF s = << >> THEN << >>
    ELSE IF IsSpace(Head(s)) THEN TrimStart(Tail(s)) ELSE s

RECURSIVE TrimEnd(_)
TrimEnd(s) ==
    IF s = << >> THEN << >>
    ELSE IF IsSpace(s[Len(s)]) THEN TrimEnd(SubSeq(s, 1, Len(s) - 1)) ELSE s

Trim(s) == TrimEnd(TrimStart(s))

TruthyText(t) == t # << >>

(* ---------------- program constants ---------------- *)
API_KEY == "k"
MockAudioUrl == "https://cdn.pixabay.com/audio/2024/02/26/audio_4088805a3w.mp3"
PngPrefix == "data:image/png;base64,"

\* steps[] of generationPipeline, 0-based as in the code: steps[i] is Steps[i + 1].
Steps == <<GENERATING_LYRICS, GENERATING_AUDIO, GENERATING_ART>>

\* steps.findIndex(step => step.status === startStep), -1 when there is none.
FindIndex(startStep) ==
    IF \E k \in 1..Len(Steps) : Steps[k] = startStep
    THEN (CHOOSE k \in 1..Len(Steps) : Steps[k] = startStep) - 1
    ELSE -1

\* A pipeline that ignores startStep and always starts at its first step.
StartIndexZero(startStep) == 0

\* A pipeline that runs none of its steps when startStep names none of them.
StartIndexPast(startStep) ==
    IF FindIndex(startStep) < 0 THEN Len(Steps) ELSE FindIndex(startStep)

\* let startIndex = findIndex(...); if (startIndex < 0) startIndex = 0;
StartIndex(startStep) ==
    IF FindIndex(startStep) < 0 THEN 0 ELSE FindIndex(startStep)

(* ---------------- what the environment can send or return ---------------- *)
SongIds == 1..MaxSongs
\* customLyrics of a generate request: absent (falsy) or given.
CustomLyrics == {<< >>, <<"c">>}
\* advancedOptions of a generate request, which the handler spreads last into
\* initialSong: the status, id and lyrics keys it carries (Undef, 0 and hasLyrics
\* FALSE: it carries none). The form of the client sends none of them.
NoOptions == [status |-> Undef, id |-> 0, hasLyrics |-> FALSE, lyrics |-> << >>]
\* Bodies whose advancedOptions carry a status, an id or (empty) lyrics.
AdvancedOptions ==
    {[NoOptions EXCEPT !.status = COMPLETE],
     [NoOptions EXCEPT !.id = 1],
     [NoOptions EXCEPT !.hasLyrics = TRUE]}
\* song.failedStep of a retry request body: absent, empty, one of the four steps a
\* record can have failed at, or some other string.
ReqFailedSteps ==
    {Undef, "", GENERATING_LYRICS, GENERATING_AUDIO, GENERATING_ART, GENERATING_VIDEO, Bogus}
\* response.text of the lyrics call.
LyricsTexts == {<<" ">>, <<" ", "l", " ">>}
\* imageBytes of the generated cover art.
ImageBytes == {"i"}
\* The uri of the generated video.
VideoLinks == {"v"}
\* error.message of what an adapter throws ('' makes the handlers use their fallback).
ErrMsgs == {"", "rate limited"}
\* The video operation: not done, done with a download link, done without one.
OpStates == {"pending"} \cup VideoLinks \cup {"nolink"}

(* ---------------- state ---------------- *)
VARIABLES
    songs,   \* the in-memory store: song id -> record
    disk,    \* the contents of db.json
    tasks,   \* the requests handled so far: each handler and the detached run it starts
    proc,    \* the server process: loading (loadSongs runs), listening or exited
    boot,    \* what loadSongs met at the start: ENOENT, data, or another error
    client,  \* the browser: the state of App (App.tsx)
    audio,   \* calls of generateSunoAudio looked at on their own
    fsys,    \* the file system: "ok", or "flaky" when fs.writeFile can reject
    view     \* the songs state of App: what the browser shows of each song

vars == <<songs, disk, tasks, proc, boot, client, audio, fsys, view>>

\* What no handler and no run of the server writes.
env == <<proc, boot, client, audio, fsys, view>>

TaskIds == 1..MaxTasks

NoSnap == << >>
NoBase == [lyrics |-> << >>, audioUrl |-> Undef, coverArtUrl |-> Undef]

\* The response a request was answered with: code 0 while there is none yet.
NoResp == [code |-> 0, id |-> 0, status |-> Undef, failedStep |-> Undef]

\* What a request found in the store: the status and failedStep of the record.
NoWas == [status |-> Undef, failedStep |-> Undef]
Was(r) == [status |-> r.status, failedStep |-> r.failedStep]

\* A task is one request: its handler and, once accepted, the detached run.
\*   pc      the await the task is suspended at ("idle": the request has not come)
\*   kind    generate, retry or regenerate
\*   song    the id of its song, start: the startStep of its run
\*   op      the video operation of generateVideoForSong ("threw": the adapter threw)
\*   snap    JSON.stringify(songs) of the saveSongs call it awaits
\*   custom, adv   customLyrics and advancedOptions of a generate request
\*   resp    the response sent
\* and, for the properties only: log, the step functions the run has entered; was,
\* what a retry request found; base and vbase, the artifacts when a regenerate
\* request was accepted and when generateVideoForSong was entered (kept while the
\* run lasts).
IdleTask ==
    [pc |-> "idle", kind |-> "none", song |-> 0, start |-> Undef,
     op |-> "none", snap |-> NoSnap, custom |-> << >>, adv |-> NoOptions, resp |-> NoResp,
     log |-> << >>, was |-> NoWas, base |-> NoBase, vbase |-> NoBase]

\* A handler that calls the run without having answered.
ResponseNotSent(code, r) == NoResp

\* res.status(code).json(record): the status line and the fields of the body the
\* claims speak of.
Response(code, r) ==
    [code |-> code, id |-> r.id, status |-> r.status, failedStep |-> r.failedStep]

\* A handler that answers with the error and goes on: the `return` is missing.
RejectedGoesOn(kind, code) ==
    [IdleTask EXCEPT !.pc = "G_meta", !.kind = kind, !.resp = [NoResp EXCEPT !.code = code]]

\* res.status(code).json({ message }): the handler returns, nothing else happens.
Rejected(kind, code) ==
    [IdleTask EXCEPT !.pc = "rejected", !.kind = kind, !.resp = [NoResp EXCEPT !.code = code]]

\* The artifacts the video sub-pipeline has to leave alone.
Artifacts(r) == [lyrics |-> r.lyrics, audioUrl |-> r.audioUrl, coverArtUrl |-> r.coverArtUrl]

\* The state of App, as far as the polling goes:
\*   pollingRef   pollingRef.current, the ids of the songs it takes to be in progress
\*   seen         the requests whose response handleGenerate, handleRetry or
\*                handleRegenerateVideo has received
\*   fetch        the getAllSongs call of fetchSongs: pc and the ids of the songs in
\*                progress in the list it was answered
\*   tick         the callback of setInterval: pc, the ids of idsToPoll from the one
\*                being polled on, and the status of the song getSong was answered
\* No browser is open: nothing of it ever changes.
NoClient ==
    [pollingRef |-> {},
     seen |-> {},
     fetch |-> [pc |-> "none", ids |-> {}],
     tick |-> [pc |-> "idle", ids |-> << >>, reply |-> Undef]]

\* A song as the browser holds it: the status and failedStep of the copy in the songs
\* state of App, or no copy of it at all.
NoCopy == [status |-> "absent", failedStep |-> Undef]
Copy(song) == [status |-> song.status, failedStep |-> song.failedStep]

\* The songs state of App (useState<Song[]>([])), the list getAllSongs was answered
\* and the song getSong was answered. Tracked only where InitConverge starts it.
NoView ==
    [songs |-> [id \in SongIds |-> NoCopy],
     list |-> [id \in SongIds |-> NoCopy],
     reply |-> NoCopy]

\* The calls of generateSunoAudio compared with one another.
AudioRuns == 2
Runs == 1..AudioRuns

\* No call of generateSunoAudio is looked at on its own.
NoAudio == [file |-> "none"]

Init ==
    /\ songs = << >>
    /\ disk = << >>
    /\ tasks = [t \in TaskIds |-> IdleTask]
    /\ proc = "listening"
    /\ boot = "ENOENT"
    /\ client = NoClient
    /\ audio = NoAudio
    /\ fsys = "ok"
    /\ view = NoView

\* A server that listens from the start: app.listen is not chained to loadSongs.
FreeTaskEarly(t) ==
    /\ tasks[t].pc = "idle"
    /\ \A u \in TaskIds : u < t => tasks[u].pc # "idle"

\* The task a new request gets: tasks are handed out in order and never reused.
\* app.listen is called when loadSongs has resolved: no request is handled before.
FreeTask(t) ==
    /\ proc = "listening"
    /\ tasks[t].pc = "idle"
    /\ \A u \in TaskIds : u < t => tasks[u].pc # "idle"

\* uuidv4(): an id no earlier generate request was given.
NextId == Cardinality((DOMAIN songs \cup {tasks[t].song : t \in TaskIds}) \ {0}) + 1

\* A store whose records are all one object: a write to one is a write to all.
PutShared(id, r) == [k \in DOMAIN songs \cup {id} |-> r]

\* songs[id] = r: the record of one song is written, the others are left alone.
Put(id, r) == IF id \in DOMAIN songs THEN [songs EXCEPT ![id] = r] ELSE songs @@ (id :> r)

\* A saveSongs without its catch: a rejected write is thrown to the run that awaits it,
\* whose catch block records the failure.
SuspendThrown(t, id, r, tk, saving) ==
    LET failed == tasks[t].snap # NoSnap /\ disk' = disk /\ disk # tasks[t].snap
        store == Put(id, IF failed
                         THEN [songs[id] EXCEPT !.failedStep = songs[id].status,
                                                !.status = ERROR]
                         ELSE r)
        to == IF failed THEN [tasks[t] EXCEPT !.pc = "E_save"] ELSE tk
    IN /\ songs' = store
       /\ tasks' = [tasks EXCEPT ![t] = [to EXCEPT !.snap = IF saving \/ failed THEN store
                                                            ELSE NoSnap]]
       /\ UNCHANGED env

\* The code up to the next await: the record is written back, the task is suspended
\* at tk.pc; `saving` says that this await is one of saveSongs, at which
\* JSON.stringify(songs) is taken: the file holds it when the await returns.
Suspend(t, id, r, tk, saving) ==
    LET store == Put(id, r)
    IN /\ songs' = store
       /\ tasks' = [tasks EXCEPT ![t] = [tk EXCEPT !.snap = IF saving THEN store ELSE NoSnap]]
       /\ UNCHANGED env

\* The await of saveSongs returns. fs.writeFile has finished: db.json is the snapshot
\* taken at the call; or it rejected: the catch of saveSongs logs the error, the file
\* is as it was, and saveSongs resolves all the same.
Written(t) ==
    \/ disk' = tasks[t].snap
    \/ fsys = "flaky" /\ disk' = disk

\* The run of a task has returned: its locals are gone.
Finished(tk) == [tk EXCEPT !.pc = "done", !.op = "none", !.base = NoBase, !.vbase = NoBase]

(* ---------------- the step functions, up to their first await ---------------- *)
Go(r, tk, pc) == [song |-> r, task |-> [tk EXCEPT !.pc = pc]]

Logged(tk, step) == [tk EXCEPT !.log = Append(@, step)]

\* stepGenerateLyrics: returns at once when the record has lyrics (the loop then
\* awaits its own saveSongs), else sets the status and awaits saveSongs.
EnterLyrics(r, tk) ==
    IF TruthyText(r.lyrics)
    THEN Go(r, Logged(tk, GENERATING_LYRICS), "L_postsave")
    ELSE Go([r EXCEPT !.status = GENERATING_LYRICS,
                      !.statusMessage = "Crafting the perfect words..."],
            Logged(tk, GENERATING_LYRICS), "L_presave")

\* stepGenerateAudio up to `await saveSongs()`.
EnterAudio(r, tk) ==
    Go([r EXCEPT !.status = GENERATING_AUDIO, !.statusMessage = "Composing the music..."],
       Logged(tk, GENERATING_AUDIO), "A_presave")

\* stepGenerateArt up to `await saveSongs()`.
EnterArt(r, tk) ==
    Go([r EXCEPT !.status = GENERATING_ART, !.statusMessage = "Creating the cover art..."],
       Logged(tk, GENERATING_ART), "R_presave")

\* generateVideoForSong up to its first `await saveSongs()`.
EnterVideo(r, tk) ==
    Go([r EXCEPT !.status = GENERATING_VIDEO, !.statusMessage = "Directing the music video..."],
       [Logged(tk, GENERATING_VIDEO) EXCEPT !.vbase = Artifacts(r)], "V_presave")

\* The loop of generationPipeline at index i; past the last step, the video sub-pipeline.
EnterStep(i, r, tk) ==
    CASE i = 0 -> EnterLyrics(r, tk)
      [] i = 1 -> EnterAudio(r, tk)
      [] i = 2 -> EnterArt(r, tk)
      [] OTHER -> EnterVideo(r, tk)

\* A catch block that sets the status before it reads it.
PipelineCatchSwapped(r, tk, msg) ==
    [song |-> [r EXCEPT !.status = ERROR,
                        !.failedStep = ERROR,
                        !.statusMessage = IF msg # "" THEN msg
                                          ELSE "An unknown error occurred during generation."],
     task |-> [tk EXCEPT !.pc = "E_save"]]

\* The catch block of generationPipeline, up to `await saveSongs()`.
PipelineCatch(r, tk, msg) ==
    Go([r EXCEPT !.failedStep = r.status,
                 !.status = ERROR,
                 !.statusMessage = IF msg # "" THEN msg
                                   ELSE "An unknown error occurred during generation."],
       tk, "E_save")

\* The catch and finally blocks of generateVideoForSong, up to `await saveSongs()`.
VideoCatch(r, tk, msg) ==
    Go([r EXCEPT !.status = ERROR,
                 !.failedStep = GENERATING_VIDEO,
                 !.statusMessage = IF msg # "" THEN msg ELSE "Failed to generate video."],
       tk, "V_finalsave")

\* The end of the try block of generateVideoForSong once operation.done holds.
VideoFinish(r, tk, op) ==
    IF op \in VideoLinks
    THEN Go([r EXCEPT !.videoUrl = op \o "&key=" \o API_KEY,
                      !.thumbnailUrl = r.coverArtUrl,
                      !.status = COMPLETE,
                      !.statusMessage = "Your masterpiece is ready!"],
            tk, "V_finalsave")
    ELSE VideoCatch(r, tk, "Video generation completed but no download link was found.")

(* ---------------- the main pipeline ---------------- *)
At(t, pc) == tasks[t].pc = pc
Rec(t) == songs[tasks[t].song]

\* A step of task t that ends at an await of saveSongs.
ToSave(t, out) == Suspend(t, tasks[t].song, out.song, out.task, TRUE)

\* stepGenerateLyrics: saveSongs returned, ai.models.generateContent is called.
LyricsSaved(t) ==
    /\ At(t, "L_presave")
    /\ Written(t)
    /\ Suspend(t, tasks[t].song, Rec(t), [tasks[t] EXCEPT !.pc = "L_call"], FALSE)

\* stepGenerateLyrics: the call returned; song.lyrics = response.text.trim(), and the
\* loop awaits saveSongs.
LyricsReturn(t) ==
    /\ At(t, "L_call")
    /\ \E text \in LyricsTexts :
          ToSave(t, Go([Rec(t) EXCEPT !.lyrics = Trim(text)], tasks[t], "L_postsave"))
    /\ UNCHANGED disk

LyricsThrow(t) ==
    /\ At(t, "L_call")
    /\ \E m \in ErrMsgs : ToSave(t, PipelineCatch(Rec(t), tasks[t], m))
    /\ UNCHANGED disk

\* stepGenerateAudio: saveSongs returned, generateSunoAudio is called.
AudioSaved(t) ==
    /\ At(t, "A_presave")
    /\ Written(t)
    /\ Suspend(t, tasks[t].song, Rec(t), [tasks[t] EXCEPT !.pc = "A_call"], FALSE)

\* generateSunoAudio returned statusData.url of the finished job.
AudioReturn(t) ==
    /\ At(t, "A_call")
    /\ ToSave(t, Go([Rec(t) EXCEPT !.audioUrl = MockAudioUrl], tasks[t], "A_postsave"))
    /\ UNCHANGED disk

\* generateSunoAudio threw: the job could not be started or polled.
AudioThrow(t) ==
    /\ At(t, "A_call")
    /\ \E m \in ErrMsgs : ToSave(t, PipelineCatch(Rec(t), tasks[t], m))
    /\ UNCHANGED disk

\* stepGenerateArt: saveSongs returned, ai.models.generateImages is called.
ArtSaved(t) ==
    /\ At(t, "R_presave")
    /\ Written(t)
    /\ Suspend(t, tasks[t].song, Rec(t), [tasks[t] EXCEPT !.pc = "R_call"], FALSE)

ArtReturn(t) ==
    /\ At(t, "R_call")
    /\ \E b \in ImageBytes :
          ToSave(t, Go([Rec(t) EXCEPT !.coverArtUrl = PngPrefix \o b], tasks[t], "R_postsave"))
    /\ UNCHANGED disk

ArtThrow(t) ==
    /\ At(t, "R_call")
    /\ \E m \in ErrMsgs : ToSave(t, PipelineCatch(Rec(t), tasks[t], m))
    /\ UNCHANGED disk

\* The index of the step after the one whose save the task awaits.
NextIndex(pc) ==
    CASE pc = "L_postsave" -> 1
      [] pc = "A_postsave" -> 2
      [] pc = "R_postsave" -> 3

\* The loop's `await saveSongs()` returned: the next step is entered, or after the
\* last one generateVideoForSong.
StepSaved(t) ==
    /\ tasks[t].pc \in {"L_postsave", "A_postsave", "R_postsave"}
    /\ Written(t)
    /\ ToSave(t, EnterStep(NextIndex(tasks[t].pc), Rec(t), tasks[t]))

\* The save of the catch block returned: generationPipeline is over.
ErrorSaved(t) ==
    /\ At(t, "E_save")
    /\ Written(t)
    /\ Suspend(t, tasks[t].song, Rec(t), Finished(tasks[t]), FALSE)

(* ---------------- the video sub-pipeline ---------------- *)
\* saveSongs returned, ai.models.generateVideos is called.
VideoSaved(t) ==
    /\ At(t, "V_presave")
    /\ Written(t)
    /\ Suspend(t, tasks[t].song, Rec(t), [tasks[t] EXCEPT !.pc = "V_submit"], FALSE)

\* generateVideos returned an operation: the status is POLLING_VIDEO, saveSongs is awaited.
VideoSubmitted(t) ==
    /\ At(t, "V_submit")
    /\ \E op \in OpStates :
          ToSave(t, Go([Rec(t) EXCEPT !.status = POLLING_VIDEO,
                                      !.statusMessage = "Rendering the final cut..."],
                       [tasks[t] EXCEPT !.op = op], "V_pollsave"))
    /\ UNCHANGED disk

VideoSubmitThrow(t) ==
    /\ At(t, "V_submit")
    /\ \E m \in ErrMsgs : ToSave(t, VideoCatch(Rec(t), [tasks[t] EXCEPT !.op = "threw"], m))
    /\ UNCHANGED disk

\* saveSongs returned: while (!operation.done) waits and polls, else the result is read.
VideoPollSaved(t) ==
    /\ At(t, "V_pollsave")
    /\ Written(t)
    /\ IF tasks[t].op = "pending"
       THEN Suspend(t, tasks[t].song, Rec(t), [tasks[t] EXCEPT !.pc = "V_poll"], FALSE)
       ELSE ToSave(t, VideoFinish(Rec(t), tasks[t], tasks[t].op))

\* getVideosOperation returned a finished operation (an unfinished one changes nothing).
VideoPolled(t) ==
    /\ At(t, "V_poll")
    /\ \E op \in OpStates \ {"pending"} :
          ToSave(t, VideoFinish(Rec(t), [tasks[t] EXCEPT !.op = op], op))
    /\ UNCHANGED disk

VideoPollThrow(t) ==
    /\ At(t, "V_poll")
    /\ \E m \in ErrMsgs : ToSave(t, VideoCatch(Rec(t), [tasks[t] EXCEPT !.op = "threw"], m))
    /\ UNCHANGED disk

\* The save of the finally block returned: generateVideoForSong is over, and with it
\* the generationPipeline that awaited it.
VideoFinalSaved(t) ==
    /\ At(t, "V_finalsave")
    /\ Written(t)
    /\ Suspend(t, tasks[t].song, Rec(t), Finished(tasks[t]), FALSE)

(* ---------------- POST /generate ---------------- *)
\* if (!prompt) return res.status(400)
GenerateInvalid(t) ==
    /\ FreeTask(t)
    /\ tasks' = [tasks EXCEPT ![t] = Rejected("generate", 400)]
    /\ UNCHANGED <<songs, disk, env>>

\* The handler up to `await ai.models.generateContent` (the metadata call); the id is
\* drawn and initialSong is built, but it is not in the store yet.
Generate(t, custom, adv) ==
    /\ FreeTask(t)
    /\ NextId <= MaxSongs
    /\ tasks' = [tasks EXCEPT ![t] =
                   [IdleTask EXCEPT !.pc = "G_meta", !.kind = "generate",
                                    !.song = NextId, !.start = GENERATING_LYRICS,
                                    !.custom = custom, !.adv = adv]]
    /\ UNCHANGED <<songs, disk, env>>

\* A generate request as the form of the client sends it.
GenerateRequest(t) == \E custom \in CustomLyrics : Generate(t, custom, NoOptions)

\* A generate request whose advancedOptions carry a status or an id.
GenerateRequestAdv(t) ==
    \E custom \in CustomLyrics, adv \in AdvancedOptions : Generate(t, custom, adv)

\* const initialSong = { id, ..., lyrics: customLyrics || '', status, ..., ...advancedOptions }
InitialSong(id, custom, adv) ==
    [id |-> IF adv.id # 0 THEN adv.id ELSE id,
     lyrics |-> IF adv.hasLyrics THEN adv.lyrics ELSE custom,
     status |-> IF adv.status # Undef THEN adv.status ELSE GENERATING_LYRICS,
     statusMessage |-> "Initializing...",
     failedStep |-> Undef,
     audioUrl |-> Undef,
     coverArtUrl |-> Undef,
     videoUrl |-> Undef,
     thumbnailUrl |-> Undef]

\* The metadata call returned (parsed or not): songs[songId] = initialSong; await saveSongs().
GenerateStored(t) ==
    /\ At(t, "G_meta")
    /\ Suspend(t, tasks[t].song,
               InitialSong(tasks[t].song, tasks[t].custom, tasks[t].adv),
               [tasks[t] EXCEPT !.pc = "G_save"], TRUE)
    /\ UNCHANGED disk

\* A handler that puts initialSong into the store before the metadata call.
GenerateFailedStored(t) ==
    /\ At(t, "G_meta")
    /\ Suspend(t, tasks[t].song,
               InitialSong(tasks[t].song, tasks[t].custom, tasks[t].adv),
               [tasks[t] EXCEPT !.pc = "failed", !.resp = [NoResp EXCEPT !.code = 500]],
               FALSE)
    /\ UNCHANGED disk

\* The metadata call threw: the outer catch answers 500.
GenerateFailed(t) ==
    /\ At(t, "G_meta")
    /\ tasks' = [tasks EXCEPT ![t].pc = "failed", ![t].resp = [NoResp EXCEPT !.code = 500]]
    /\ UNCHANGED <<songs, disk, env>>

\* saveSongs returned: res.status(201).json(initialSong); generationPipeline(songId)
\* runs up to its first await.
GenerateSaved(t) ==
    /\ At(t, "G_save")
    /\ Written(t)
    /\ ToSave(t, EnterStep(StartIndex(tasks[t].start), Rec(t),
                           [tasks[t] EXCEPT !.resp = Response(201, Rec(t))]))

(* ---------------- POST /retry ---------------- *)
\* The status POST /retry answers a body with: 400 unless song, song.id and
\* song.failedStep are truthy, 404 unless songs[song.id] exists (id 0: no song.id).
RetryCode(hasSong, id, fs) ==
    IF ~hasSong \/ id = 0 \/ ~Truthy(fs) THEN 400
    ELSE IF id \notin DOMAIN songs THEN 404
    ELSE 200

RetryRejected(t) ==
    /\ FreeTask(t)
    /\ \E hasSong \in BOOLEAN, id \in 0..MaxSongs, fs \in ReqFailedSteps :
          /\ RetryCode(hasSong, id, fs) # 200
          /\ tasks' = [tasks EXCEPT ![t] = Rejected("retry", RetryCode(hasSong, id, fs))]
    /\ UNCHANGED <<songs, disk, env>>

\* The handler up to `await saveSongs()`.
RetryRequest(t) ==
    /\ FreeTask(t)
    /\ \E id \in SongIds, fs \in ReqFailedSteps :
          /\ RetryCode(TRUE, id, fs) = 200
          /\ Suspend(t, id,
                     [songs[id] EXCEPT !.status = fs,
                                       !.statusMessage = "Retrying...",
                                       !.failedStep = Undef],
                     [IdleTask EXCEPT !.pc = "T_save", !.kind = "retry", !.song = id,
                                      !.start = fs, !.was = Was(songs[id])],
                     TRUE)
    /\ UNCHANGED disk

\* saveSongs returned: res.json(existingSong); generationPipeline(song.id, startStep)
\* runs up to its first await.
RetrySaved(t) ==
    /\ At(t, "T_save")
    /\ Written(t)
    /\ ToSave(t, EnterStep(StartIndex(tasks[t].start), Rec(t),
                           [tasks[t] EXCEPT !.resp = Response(200, Rec(t))]))

(* ---------------- POST /regenerate-video ---------------- *)
\* 400 unless song and song.id are truthy, 404 unless songs[song.id] exists.
RegenerateCode(hasSong, id) ==
    IF ~hasSong \/ id = 0 THEN 400
    ELSE IF id \notin DOMAIN songs THEN 404
    ELSE 200

RegenerateRejected(t) ==
    /\ FreeTask(t)
    /\ \E hasSong \in BOOLEAN, id \in 0..MaxSongs :
          /\ RegenerateCode(hasSong, id) # 200
          /\ tasks' = [tasks EXCEPT ![t] =
                         Rejected("regenerate", RegenerateCode(hasSong, id))]
    /\ UNCHANGED <<songs, disk, env>>

\* The handler up to `await saveSongs()`.
RegenerateRequest(t) ==
    /\ FreeTask(t)
    /\ \E id \in SongIds :
          /\ RegenerateCode(TRUE, id) = 200
          /\ Suspend(t, id,
                     [songs[id] EXCEPT !.videoUrl = Undef, !.thumbnailUrl = Undef],
                     [IdleTask EXCEPT !.pc = "RV_save", !.kind = "regenerate", !.song = id,
                                      !.start = GENERATING_VIDEO,
                                      !.base = Artifacts(songs[id])],
                     TRUE)
    /\ UNCHANGED disk

\* saveSongs returned: res.json(existingSong); generateVideoForSong(song.id) runs up to
\* its first await.
RegenerateSaved(t) ==
    /\ At(t, "RV_save")
    /\ Written(t)
    /\ ToSave(t, EnterVideo(Rec(t), [tasks[t] EXCEPT !.resp = Response(200, Rec(t))]))

(* ---------------- the server ---------------- *)
Requests ==
    \/ \E t \in TaskIds : GenerateInvalid(t)
    \/ \E t \in TaskIds : RetryRejected(t)
    \/ \E t \in TaskIds : RegenerateRejected(t)
    \/ \E t \in TaskIds : GenerateRequest(t)
    \/ \E t \in TaskIds : RetryRequest(t)
    \/ \E t \in TaskIds : RegenerateRequest(t)

Handlers ==
    \/ \E t \in TaskIds : GenerateStored(t)
    \/ \E t \in TaskIds : GenerateFailed(t)
    \/ \E t \in TaskIds : GenerateSaved(t)
    \/ \E t \in TaskIds : RetrySaved(t)
    \/ \E t \in TaskIds : RegenerateSaved(t)

Pipeline ==
    \/ \E t \in TaskIds : LyricsSaved(t)
    \/ \E t \in TaskIds : LyricsReturn(t)
    \/ \E t \in TaskIds : LyricsThrow(t)
    \/ \E t \in TaskIds : AudioSaved(t)
    \/ \E t \in TaskIds : AudioReturn(t)
    \/ \E t \in TaskIds : AudioThrow(t)
    \/ \E t \in TaskIds : ArtSaved(t)
    \/ \E t \in TaskIds : ArtReturn(t)
    \/ \E t \in TaskIds : ArtThrow(t)
    \/ \E t \in TaskIds : StepSaved(t)
    \/ \E t \in TaskIds : ErrorSaved(t)

Video ==
    \/ \E t \in TaskIds : VideoSaved(t)
    \/ \E t \in TaskIds : VideoSubmitted(t)
    \/ \E t \in TaskIds : VideoSubmitThrow(t)
    \/ \E t \in TaskIds : VideoPollSaved(t)
    \/ \E t \in TaskIds : VideoPolled(t)
    \/ \E t \in TaskIds : VideoPollThrow(t)
    \/ \E t \in TaskIds : VideoFinalSaved(t)

Next == Requests \/ Handlers \/ Pipeline \/ Video

Spec == Init /\ [][Next]_vars

(* ---------------- the later server: placeholders instead of failures ---------------- *)
\* What differs in the second server file: generateSunoAudio falls back to a demo
\* file instead of throwing, stepGenerateArt to a placeholder image, and
\* generateVideoForSong to a placeholder video.
PlaceholderVideo == "https://commondatastorage.googleapis.com/gtv-videos-bucket/sample/BigBuckBunny.mp4"
PlaceholderImage == "data:image/png;base64,iVBORw0KGgoAAAANSUhEUgAAAAEAAAABCAQAAAC1HAwCAAAAC0lEQVR4nGNgYAAAAAMAASsJTYQAAAAASUVORK5CYII="

\* demoAudioUrls of generateSunoAudio, by index.
NumDemoAudio == 4
DemoAudioUrl(i) == "/api/proxy-audio?url=" \o ToString(i)

\* generateSunoAudio returned: the url Suno reported, or after a failure or without a
\* key demoAudioUrls[selectedIndex], which is drawn with Math.random unless the
\* genre names trance, pop or ambient.
AudioReturnV2(t) ==
    /\ At(t, "A_call")
    /\ \E url \in {"suno"} \cup {DemoAudioUrl(i) : i \in 0..(NumDemoAudio - 1)} :
          ToSave(t, Go([Rec(t) EXCEPT !.audioUrl = url], tasks[t], "A_postsave"))
    /\ UNCHANGED disk

\* generateImages threw: the catch of stepGenerateArt stores the placeholder image.
ArtPlaceholderV2(t) ==
    /\ At(t, "R_call")
    /\ ToSave(t, Go([Rec(t) EXCEPT !.coverArtUrl = PlaceholderImage], tasks[t], "R_postsave"))
    /\ UNCHANGED disk

\* generateVideos threw: the inner catch stores the placeholder video, the status is
\* COMPLETE, and saveSongs is awaited before the return.
VideoSubmitMockedV2(t) ==
    /\ At(t, "V_submit")
    /\ ToSave(t, Go([Rec(t) EXCEPT !.videoUrl = PlaceholderVideo,
                                   !.thumbnailUrl = Rec(t).coverArtUrl,
                                   !.status = COMPLETE,
                                   !.statusMessage = "Video mocked due to API billing limits."],
                    [tasks[t] EXCEPT !.op = "threw"], "V_mocksave"))
    /\ UNCHANGED disk

\* That save returned: `return` runs the finally block, which awaits saveSongs again.
VideoMockSavedV2(t) ==
    /\ At(t, "V_mocksave")
    /\ Written(t)
    /\ ToSave(t, Go(Rec(t), tasks[t], "V_finalsave"))

\* The outer catch and the finally block, up to `await saveSongs()`.
VideoCatchV2(r, tk) ==
    Go([r EXCEPT !.videoUrl = PlaceholderVideo,
                 !.thumbnailUrl = r.coverArtUrl,
                 !.status = COMPLETE,
                 !.statusMessage = "Video mocked due to API limits.",
                 !.failedStep = Undef],
       tk, "V_finalsave")

VideoFinishV2(r, tk, op) ==
    IF op \in VideoLinks
    THEN Go([r EXCEPT !.videoUrl = op \o "&key=" \o API_KEY,
                      !.thumbnailUrl = r.coverArtUrl,
                      !.status = COMPLETE,
                      !.statusMessage = "Your masterpiece is ready!"],
            tk, "V_finalsave")
    ELSE VideoCatchV2(r, tk)

VideoPollSavedV2(t) ==
    /\ At(t, "V_pollsave")
    /\ Written(t)
    /\ IF tasks[t].op = "pending"
       THEN Suspend(t, tasks[t].song, Rec(t), [tasks[t] EXCEPT !.pc = "V_poll"], FALSE)
       ELSE ToSave(t, VideoFinishV2(Rec(t), tasks[t], tasks[t].op))

VideoPolledV2(t) ==
    /\ At(t, "V_poll")
    /\ \E op \in OpStates \ {"pending"} :
          ToSave(t, VideoFinishV2(Rec(t), [tasks[t] EXCEPT !.op = op], op))
    /\ UNCHANGED disk

VideoPollThrowV2(t) ==
    /\ At(t, "V_poll")
    /\ ToSave(t, VideoCatchV2(Rec(t), [tasks[t] EXCEPT !.op = "threw"]))
    /\ UNCHANGED disk

PipelineV2 ==
    \/ \E t \in TaskIds : LyricsSaved(t)
    \/ \E t \in TaskIds : LyricsReturn(t)
    \/ \E t \in TaskIds : LyricsThrow(t)
    \/ \E t \in TaskIds : AudioSaved(t)
    \/ \E t \in TaskIds : AudioReturnV2(t)
    \/ \E t \in TaskIds : ArtSaved(t)
    \/ \E t \in TaskIds : ArtReturn(t)
    \/ \E t \in TaskIds : ArtPlaceholderV2(t)
    \/ \E t \in TaskIds : StepSaved(t)
    \/ \E t \in TaskIds : ErrorSaved(t)

VideoV2 ==
    \/ \E t \in TaskIds : VideoSaved(t)
    \/ \E t \in TaskIds : VideoSubmitted(t)
    \/ \E t \in TaskIds : VideoSubmitMockedV2(t)
    \/ \E t \in TaskIds : VideoMockSavedV2(t)
    \/ \E t \in TaskIds : VideoPollSavedV2(t)
    \/ \E t \in TaskIds : VideoPolledV2(t)
    \/ \E t \in TaskIds : VideoPollThrowV2(t)
    \/ \E t \in TaskIds : VideoFinalSaved(t)

\* The second server is explored under a client that sends one request at a time:
\* a request arrives only when no handler and no run is in progress.
Quiet == \A t \in TaskIds : tasks[t].pc \in {"idle", "rejected", "failed", "done"}

RequestsV2 ==
    \/ Quiet /\ \E t \in TaskIds : GenerateInvalid(t)
    \/ Quiet /\ \E t \in TaskIds : RetryRejected(t)
    \/ Quiet /\ \E t \in TaskIds : RegenerateRejected(t)
    \/ Quiet /\ \E t \in TaskIds : GenerateRequest(t)
    \/ Quiet /\ \E t \in TaskIds : RetryRequest(t)
    \/ Quiet /\ \E t \in TaskIds : RegenerateRequest(t)

NextV2 == RequestsV2 \/ Handlers \/ PipelineV2 \/ VideoV2

SpecV2 == Init /\ [][NextV2]_vars

(* ---------------- the third server: no video generation ---------------- *)
\* What differs in the third server file: generateSunoAudio returns a demo file when
\* there is no key and throws when Suno fails, the metadata call of POST /generate has
\* a catch of its own, and generateVideoForSong stores a placeholder video.
PlaceholderVideoV3 == "https://example.com/placeholder-video.mp4"

\* GenerationStatus.COMPLETED: the enum has no such key, the value is undefined.
COMPLETED == Undef

\* generateVideoForSong: its first saveSongs returned; the placeholder is stored, the
\* status is GenerationStatus.COMPLETED, and saveSongs is awaited before the return.
VideoSavedV3(t) ==
    /\ At(t, "V_presave")
    /\ Written(t)
    /\ ToSave(t, Go([Rec(t) EXCEPT
                       !.videoUrl = PlaceholderVideoV3,
                       !.thumbnailUrl = Rec(t).coverArtUrl,
                       !.status = COMPLETED,
                       !.statusMessage =
                           "Your song is ready! (Video generation is currently disabled)"],
                   tasks[t], "V_finalsave"))

HandlersV3 ==
    \/ \E t \in TaskIds : GenerateStored(t)
    \/ \E t \in TaskIds : GenerateSaved(t)
    \/ \E t \in TaskIds : RetrySaved(t)
    \/ \E t \in TaskIds : RegenerateSaved(t)

PipelineV3 ==
    \/ \E t \in TaskIds : LyricsSaved(t)
    \/ \E t \in TaskIds : LyricsReturn(t)
    \/ \E t \in TaskIds : LyricsThrow(t)
    \/ \E t \in TaskIds : AudioSaved(t)
    \/ \E t \in TaskIds : AudioReturnV2(t)
    \/ \E t \in TaskIds : AudioThrow(t)
    \/ \E t \in TaskIds : ArtSaved(t)
    \/ \E t \in TaskIds : ArtReturn(t)
    \/ \E t \in TaskIds : ArtThrow(t)
    \/ \E t \in TaskIds : StepSaved(t)
    \/ \E t \in TaskIds : ErrorSaved(t)

VideoV3 ==
    \/ \E t \in TaskIds : VideoSavedV3(t)
    \/ \E t \in TaskIds : VideoFinalSaved(t)

NextV3 == RequestsV2 \/ HandlersV3 \/ PipelineV3 \/ VideoV3

\* The event loop runs every continuation that is ready, and every call to an adapter
\* or to the file system returns or throws: a handler or run that can go on does.
FairV3 == WF_vars(HandlersV3 \/ PipelineV3 \/ VideoV3)

SpecV3 == Init /\ [][NextV3]_vars /\ FairV3

(* ---------------- the start of the process ---------------- *)
\* A record db.json can hold from an earlier life of the process.
StoredSong(id, status, failedStep) ==
    [id |-> id,
     lyrics |-> <<"l">>,
     status |-> status,
     statusMessage |-> "stored",
     failedStep |-> failedStep,
     audioUrl |-> Undef,
     coverArtUrl |-> Undef,
     videoUrl |-> Undef,
     thumbnailUrl |-> Undef]

\* A store whose only song failed at the audio step.
FailedStore == <<StoredSong(1, ERROR, GENERATING_AUDIO)>>
\* A store whose only song was in its audio step when the process died.
CrashedStore == <<StoredSong(1, GENERATING_AUDIO, Undef)>>

\* What db.json holds when the process starts (<< >>: '{}', or no file).
Snapshots == {<< >>, FailedStore, CrashedStore}

\* let songs = {}; loadSongs() has been called and awaits fs.readFile.
InitBoot ==
    /\ songs = << >>
    /\ disk \in Snapshots
    /\ tasks = [t \in TaskIds |-> IdleTask]
    /\ proc = "loading"
    /\ client = NoClient
    /\ audio = NoAudio
    /\ fsys = "ok"
    /\ view = NoView
    /\ boot \in {"ENOENT", "data", "error"}
    /\ boot = "ENOENT" => disk = << >>

\* A loader that goes on with the run of a song the snapshot holds in the middle of
\* its run.
LoadParsedResumes ==
    /\ proc = "loading"
    /\ boot = "data"
    /\ songs' = disk
    /\ proc' = "listening"
    /\ tasks' = IF \E id \in DOMAIN disk : disk[id].status \notin {COMPLETE, ERROR}
                THEN LET id == CHOOSE id \in DOMAIN disk :
                                  disk[id].status \notin {COMPLETE, ERROR}
                     IN [tasks EXCEPT ![1] = [IdleTask EXCEPT !.pc = "A_call",
                                                              !.kind = "resume",
                                                              !.song = id,
                                                              !.start = disk[id].status]]
                ELSE tasks
    /\ UNCHANGED <<disk, boot, client, audio, fsys, view>>

\* readFile returned and the data parse: songs = JSON.parse(data); app.listen.
LoadParsed ==
    /\ proc = "loading"
    /\ boot = "data"
    /\ songs' = disk
    /\ proc' = "listening"
    /\ UNCHANGED <<disk, tasks, boot, client, audio, fsys, view>>

\* error.code === 'ENOENT': songs = {}; app.listen.
LoadMissing ==
    /\ proc = "loading"
    /\ boot = "ENOENT"
    /\ songs' = << >>
    /\ proc' = "listening"
    /\ UNCHANGED <<disk, tasks, boot, client, audio, fsys, view>>

\* readFile failed otherwise, or JSON.parse threw: process.exit(1).
LoadFatal ==
    /\ proc = "loading"
    /\ boot = "error"
    /\ proc' = "exited"
    /\ UNCHANGED <<songs, disk, tasks, boot, client, audio, fsys, view>>

Load == LoadParsed \/ LoadMissing \/ LoadFatal

\* The process from its start, under a client that sends one request at a time.
RequestsBoot ==
    \/ Quiet /\ \E t \in TaskIds : GenerateInvalid(t)
    \/ Quiet /\ \E t \in TaskIds : RetryRejected(t)
    \/ Quiet /\ \E t \in TaskIds : RegenerateRejected(t)
    \/ Quiet /\ \E t \in TaskIds : GenerateRequest(t)
    \/ Quiet /\ \E t \in TaskIds : GenerateRequestAdv(t)
    \/ Quiet /\ \E t \in TaskIds : RetryRequest(t)
    \/ Quiet /\ \E t \in TaskIds : RegenerateRequest(t)

NextBoot == Load \/ RequestsBoot \/ Handlers \/ Pipeline \/ Video

SpecBoot == InitBoot /\ [][NextBoot]_vars

\* Two songs side by side: the store holds a song that failed at audio (the process
\* has loaded it), and requests arrive at any time.
InitPair ==
    /\ songs = FailedStore
    /\ disk = FailedStore
    /\ tasks = [t \in TaskIds |-> IdleTask]
    /\ proc = "listening"
    /\ boot = "data"
    /\ client = NoClient
    /\ audio = NoAudio
    /\ fsys = "ok"
    /\ view = NoView

\* The request task t makes is for a song no other request was for.
Alone(t) == \A u \in TaskIds \ {t} : tasks[u].song # tasks'[t].song

\* Each song has a client of its own: no two requests are for the same song.
RequestsPair ==
    \/ \E t \in TaskIds : GenerateRequest(t)
    \/ \E t \in TaskIds : RetryRequest(t) /\ Alone(t)
    \/ \E t \in TaskIds : RegenerateRequest(t) /\ Alone(t)

NextPair == RequestsPair \/ Handlers \/ Pipeline \/ Video

SpecPair == InitPair /\ [][NextPair]_vars

(* ---------------- a disk that refuses writes ---------------- *)
\* The first server on a file system whose writes can fail, one request at a time.
InitDisk ==
    /\ songs = << >>
    /\ disk = << >>
    /\ tasks = [t \in TaskIds |-> IdleTask]
    /\ proc = "listening"
    /\ boot = "ENOENT"
    /\ client = NoClient
    /\ audio = NoAudio
    /\ fsys = "flaky"
    /\ view = NoView

NextDisk == RequestsV2 \/ Handlers \/ Pipeline \/ Video

SpecDisk == InitDisk /\ [][NextDisk]_vars

(* ---------------- the client (App.tsx) ---------------- *)
Terminal(status) == status = COMPLETE \/ status = ERROR

\* The app has mounted: the effect has called fetchSongs, which awaits getAllSongs.
InitClient ==
    /\ songs = << >>
    /\ disk = << >>
    /\ tasks = [t \in TaskIds |-> IdleTask]
    /\ proc = "listening"
    /\ boot = "ENOENT"
    /\ client = [NoClient EXCEPT !.fetch.pc = "pending"]
    /\ audio = NoAudio
    /\ fsys = "ok"
    /\ view = NoView

Server == UNCHANGED <<songs, disk, tasks, proc, boot, audio, fsys>>

\* GET /songs is answered: res.json(Object.values(songs)); inProgressSongs are those
\* of the list whose status is neither COMPLETE nor ERROR.
FetchAnswered ==
    /\ client.fetch.pc = "pending"
    /\ client' = [client EXCEPT
                     !.fetch = [pc |-> "answered",
                                ids |-> {id \in DOMAIN songs : ~Terminal(songs[id].status)}]]
    /\ Server

\* fetchSongs: setSongs(allSongs); pollingRef.current = new Set(the ids in progress).
FetchArrives ==
    /\ client.fetch.pc = "answered"
    /\ client' = [client EXCEPT !.pollingRef = client.fetch.ids,
                                 !.fetch = [pc |-> "done", ids |-> {}]]
    /\ Server

\* getAllSongs rejected: setError, nothing else.
FetchFails ==
    /\ client.fetch.pc = "pending"
    /\ client' = [client EXCEPT !.fetch.pc = "failed"]
    /\ Server

\* The orders Array.from(pollingRef.current) can have.
Orders(S) ==
    {q \in [1..Cardinality(S) -> S] : \A i, j \in 1..Cardinality(S) : i # j => q[i] # q[j]}

\* The interval fires and no earlier callback is running: idsToPoll is taken, and
\* getSong is awaited for its first id.
TickStart ==
    /\ client.tick.pc = "idle"
    /\ client.pollingRef # {}
    /\ \E q \in Orders(client.pollingRef) :
          client' = [client EXCEPT !.tick = [pc |-> "request", ids |-> q, reply |-> Undef]]
    /\ Server

\* GET /songs/:id is answered with the record.
PollAnswered ==
    /\ client.tick.pc = "request"
    /\ Head(client.tick.ids) \in DOMAIN songs
    /\ client' = [client EXCEPT !.tick.pc = "reply",
                                 !.tick.reply = songs[Head(client.tick.ids)].status]
    /\ Server

\* The loop goes on with the next id of idsToPoll, or the callback returns.
Advance(tick) ==
    IF Len(tick.ids) > 1
    THEN [pc |-> "request", ids |-> Tail(tick.ids), reply |-> Undef]
    ELSE [pc |-> "idle", ids |-> << >>, reply |-> Undef]

\* getSong resolved: the id leaves the polling set when the status of updatedSong is
\* COMPLETE or ERROR.
PollArrives ==
    /\ client.tick.pc = "reply"
    /\ client' = [client EXCEPT
                     !.pollingRef = IF Terminal(client.tick.reply)
                                    THEN @ \ {Head(client.tick.ids)} ELSE @,
                     !.tick = Advance(client.tick)]
    /\ Server

\* getSong rejected (the request failed, or the answer was not ok): the catch block
\* deletes the id from the polling set.
PollFails ==
    /\ client.tick.pc = "request"
    /\ client' = [client EXCEPT !.pollingRef = @ \ {Head(client.tick.ids)},
                                 !.tick = Advance(client.tick)]
    /\ Server

\* handleGenerate, handleRetry, handleRegenerateVideo: the response of request t has
\* come, and the id of its song is added to the polling set.
Deliver(t) ==
    /\ t \notin client.seen
    /\ tasks[t].resp.code \in {200, 201}
    /\ client' = [client EXCEPT !.seen = @ \cup {t},
                                 !.pollingRef = @ \cup {tasks[t].resp.id}]
    /\ Server

\* The requests of one user: the next is made when the earlier one has been served.
ClientRequests ==
    \/ Quiet /\ \E t \in TaskIds : GenerateRequest(t)
    \/ Quiet /\ \E t \in TaskIds : RetryRequest(t)
    \/ Quiet /\ \E t \in TaskIds : RegenerateRequest(t)

Browser ==
    \/ FetchAnswered /\ UNCHANGED view
    \/ FetchArrives /\ UNCHANGED view
    \/ FetchFails /\ UNCHANGED view
    \/ TickStart /\ UNCHANGED view
    \/ PollAnswered /\ UNCHANGED view
    \/ PollArrives /\ UNCHANGED view
    \/ PollFails /\ UNCHANGED view
    \/ \E t \in TaskIds : Deliver(t) /\ UNCHANGED view

NextClient == ClientRequests \/ Handlers \/ Pipeline \/ Video \/ Browser

SpecClient == InitClient /\ [][NextClient]_vars

(* ---------------- the client and what it shows (App.tsx) ---------------- *)
\* The same app, with its songs state followed, no request of the browser failing.
\* The songs the user of this browser makes.
ViewSongs == 1

InitConverge == InitClient

\* getAllSongs is answered with every stored song.
FetchAnsweredView ==
    /\ FetchAnswered
    /\ view' = [view EXCEPT
                   !.list = [id \in SongIds |->
                                IF id \in DOMAIN songs THEN Copy(songs[id]) ELSE NoCopy]]

\* fetchSongs: setSongs(allSongs) puts the list answered in the place of the state.
FetchArrivesView ==
    /\ FetchArrives
    /\ view' = [view EXCEPT !.songs = view.list, !.list = NoView.list]

TickStartView == TickStart /\ UNCHANGED view

\* getSong is answered with the record as it is now.
PollAnsweredView ==
    /\ PollAnswered
    /\ view' = [view EXCEPT !.reply = Copy(songs[Head(client.tick.ids)])]

\* setSongs(prevSongs => ...): updatedSong takes the place of the song of that id, or
\* is put in front of the list when the state has no song of that id.
PollArrivesView ==
    /\ PollArrives
    /\ view' = [view EXCEPT !.songs[Head(client.tick.ids)] = view.reply,
                             !.reply = NoCopy]

\* handleGenerate: setSongs(prev => [newSong, ...prev]); handleRetry and
\* handleRegenerateVideo: setSongs(prev => prev.map(...)) with the song answered.
DeliverView(t) ==
    /\ Deliver(t)
    /\ view' = [view EXCEPT
                   !.songs[tasks[t].resp.id] =
                       IF tasks[t].kind = "generate" \/ @ # NoCopy
                       THEN [status |-> tasks[t].resp.status,
                             failedStep |-> tasks[t].resp.failedStep]
                       ELSE @]

\* The form is used at any time; Retry is offered on a song shown with the status
\* ERROR and sends the song shown; the video is regenerated from the detail of a song,
\* which opens for a song shown as COMPLETE or ERROR.
ViewRequests ==
    \/ Quiet /\ Cardinality(DOMAIN songs) < ViewSongs /\ \E t \in TaskIds : GenerateRequest(t)
    \/ Quiet /\ \E t \in TaskIds :
          /\ RetryRequest(t)
          /\ tasks'[t].song \in SongIds
          /\ view.songs[tasks'[t].song] =
                 [status |-> ERROR, failedStep |-> tasks'[t].start]
    \/ Quiet /\ \E t \in TaskIds :
          /\ RegenerateRequest(t)
          /\ tasks'[t].song \in SongIds
          /\ Terminal(view.songs[tasks'[t].song].status)

BrowserView ==
    \/ FetchAnsweredView
    \/ FetchArrivesView
    \/ TickStartView
    \/ PollAnsweredView
    \/ PollArrivesView
    \/ \E t \in TaskIds : DeliverView(t)

NextConverge == ViewRequests \/ Handlers \/ Pipeline \/ Video \/ BrowserView

\* Every request is answered, every await of the server goes on, the interval keeps
\* firing and every callback of the browser runs.
FairConverge ==
    /\ WF_vars(Handlers \/ Pipeline \/ Video)
    /\ WF_vars(FetchAnsweredView)
    /\ WF_vars(FetchArrivesView)
    /\ WF_vars(TickStartView)
    /\ WF_vars(PollAnsweredView)
    /\ WF_vars(PollArrivesView)
    /\ WF_vars(\E t \in TaskIds : DeliverView(t))

SpecConverge == InitConverge /\ [][NextConverge]_vars /\ FairConverge

(* ---------------- generateSunoAudio on its own ---------------- *)
\* A genre, as the words it is made of: genre.toLowerCase().includes(w) holds when one
\* of them, lower-cased, is w. The empty genre is the undefined or empty string.
ToLowerCase(w) ==
    CASE w = "Pop" -> "pop"
      [] w = "Trance" -> "trance"
      [] OTHER -> w
Includes(genre, w) == \E i \in 1..Len(genre) : ToLowerCase(genre[i]) = w

Genres == {<< >>, <<"trance">>, <<"Pop">>, <<"ambient", "pop">>, <<"synth", "Trance">>,
           <<"ambient">>, <<"rock">>}
VocalGenders == {Undef, "male", "female"}
Lyricses == {"la la", "oh oh"}
Prompts == {"a song", "a tune"}

\* selectedIndex of the demo fallback: by genre, else Math.floor(Math.random() * 4),
\* any index of demoAudioUrls.
SelectedIndexes(genre) ==
    IF genre # << >> /\ Includes(genre, "trance") THEN {1}
    ELSE IF genre # << >> /\ Includes(genre, "pop") THEN {2}
    ELSE IF genre # << >> /\ Includes(genre, "ambient") THEN {3}
    ELSE 0..(NumDemoAudio - 1)

\* Each run is a call generateSunoAudio(lyrics, prompt, genre, vocalGender) of the file
\* named, with or without SUNO_API_KEY in the environment.
InitAudio ==
    /\ songs = << >>
    /\ disk = << >>
    /\ tasks = [t \in TaskIds |-> IdleTask]
    /\ proc = "listening"
    /\ boot = "ENOENT"
    /\ client = NoClient
    /\ fsys = "ok"
    /\ view = NoView
    /\ \E file \in {"part_002", "part_003"}, key \in BOOLEAN, genre \in Genres,
          vocalGender \in VocalGenders, lyrics \in Lyricses, prompt \in Prompts :
          audio = [file |-> file, key |-> key, lyrics |-> lyrics, prompt |-> prompt,
                   genre |-> genre, vocalGender |-> vocalGender,
                   run |-> [r \in Runs |->
                              [pc |-> IF key THEN "suno" ELSE "demo", url |-> Undef]]]

Others == UNCHANGED <<songs, disk, tasks, proc, boot, client, fsys, view>>

\* The Suno job completed with an audio url.
SunoReturns(r) ==
    /\ audio.run[r].pc = "suno"
    /\ audio' = [audio EXCEPT !.run[r] = [pc |-> "returned", url |-> "suno"]]
    /\ Others

\* The Suno API failed: part_003 rethrows to the pipeline, part_002 falls through to
\* the demo audio.
SunoFails(r) ==
    /\ audio.run[r].pc = "suno"
    /\ audio' = [audio EXCEPT !.run[r].pc = IF audio.file = "part_003" THEN "thrown"
                                            ELSE "demo"]
    /\ Others

\* The demo fallback: selectedDemoUrl is chosen, and the 2000 ms timer is awaited.
DemoSelect(r) ==
    /\ audio.run[r].pc = "demo"
    /\ \E selectedIndex \in SelectedIndexes(audio.genre) :
          audio' = [audio EXCEPT !.run[r] = [pc |-> "timer",
                                            url |-> DemoAudioUrl(selectedIndex)]]
    /\ Others

\* The timer fired: return selectedDemoUrl.
DemoReturn(r) ==
    /\ audio.run[r].pc = "timer"
    /\ audio' = [audio EXCEPT !.run[r].pc = "returned"]
    /\ Others

NextAudio ==
    \/ \E r \in Runs : SunoReturns(r)
    \/ \E r \in Runs : SunoFails(r)
    \/ \E r \in Runs : DemoSelect(r)
    \/ \E r \in Runs : DemoReturn(r)

SpecAudio == InitAudio /\ [][NextAudio]_vars

(* ======================= properties ======================= *)
Ids == DOMAIN songs

\* The task has been accepted: its handler got past the validation.
Accepted(t) == tasks[t].pc \notin {"idle", "rejected", "failed"}

\* generationPipeline or generateVideoForSong of task t has been called and has not
\* returned: the handler has answered, the run is suspended at one of its awaits.
RunPcs ==
    {"L_presave", "L_call", "L_postsave", "A_presave", "A_call", "A_postsave",
     "R_presave", "R_call", "R_postsave", "E_save",
     "V_presave", "V_submit", "V_pollsave", "V_poll", "V_mocksave", "V_finalsave"}

Running(t) == tasks[t].pc \in RunPcs

\* The step that task t takes in the transition at hand (every step is of one task).
Acts(t) == tasks'[t] # tasks[t]

\* The position of a step in the pipeline order.
Order(step) ==
    CASE step = GENERATING_LYRICS -> 1
      [] step = GENERATING_AUDIO -> 2
      [] step = GENERATING_ART -> 3
      [] step = GENERATING_VIDEO -> 4
      [] OTHER -> 0

FullPipeline == <<GENERATING_LYRICS, GENERATING_AUDIO, GENERATING_ART, GENERATING_VIDEO>>

IsPrefix(s, full) == Len(s) <= Len(full) /\ s = SubSeq(full, 1, Len(s))

\* C1: in every reachable state each song record has failedStep set if and only if
\* its status is ERROR.
C1_FailedStepIffError ==
    \A id \in Ids : (songs[id].failedStep # Undef) <=> (songs[id].status = ERROR)

\* C2: in every reachable state the status of every song record is one of the seven
\* states of GenerationStatus.
C2_StatusDefined ==
    \A id \in Ids : songs[id].status \in GenerationStatus

\* Task t sets the status of its song to COMPLETE in this step, at the end of a run
\* that entered lyrics, audio, art and the video sub-pipeline.
CompletesFullPipeline(t) ==
    /\ tasks[t].pc \in {"V_pollsave", "V_poll"}
    /\ tasks'[t].pc = "V_finalsave"
    /\ tasks[t].log = FullPipeline
    /\ songs'[tasks[t].song].status = COMPLETE

\* C3: whenever a song reaches COMPLETE through the full pipeline, its lyrics,
\* audioUrl, coverArtUrl and videoUrl are all non-empty in that state.
C3_CompleteHasAllArtifacts ==
    [][\A t \in TaskIds :
          CompletesFullPipeline(t) =>
              LET r == songs'[tasks[t].song]
              IN /\ TruthyText(r.lyrics)
                 /\ Truthy(r.audioUrl)
                 /\ Truthy(r.coverArtUrl)
                 /\ Truthy(r.videoUrl)]_vars

\* Task t is a retry of a recorded failure: the record was in ERROR and the request
\* named the failedStep it carried.
RetryOfRecorded(t) ==
    /\ tasks[t].kind = "retry"
    /\ Accepted(t)
    /\ tasks[t].was.status = ERROR
    /\ tasks[t].was.failedStep = tasks[t].start

\* C4: an accepted retry re-enters the pipeline exactly at the recorded failed step,
\* for each of the four values failedStep can have: the response carries that step as
\* status and no failedStep, the first step the run enters is that step, and no step
\* before it in the pipeline order is entered.
C4_RetryResumesAtFailedStep ==
    \A t \in TaskIds :
        RetryOfRecorded(t) /\ tasks[t].resp.code = 200 =>
            /\ tasks[t].resp.status = tasks[t].start
            /\ tasks[t].resp.failedStep = Undef
            /\ tasks[t].log # << >>
            /\ tasks[t].log[1] = tasks[t].start
            /\ \A k \in 1..Len(tasks[t].log) :
                  Order(tasks[t].log[k]) >= Order(tasks[t].start)

\* C5: a retry of a song whose failedStep is GENERATING_AUDIO does not run the lyrics
\* step: its run enters audio first, then art, then the video sub-pipeline, and no
\* step of the run changes the lyrics of the record.
C5_AudioRetrySkipsLyrics ==
    /\ [](\A t \in TaskIds :
            tasks[t].kind = "retry" /\ tasks[t].start = GENERATING_AUDIO /\ Running(t) =>
                /\ tasks[t].log # << >>
                /\ IsPrefix(tasks[t].log,
                            <<GENERATING_AUDIO, GENERATING_ART, GENERATING_VIDEO>>))
    /\ [][\A t \in TaskIds :
            tasks[t].kind = "retry" /\ tasks[t].start = GENERATING_AUDIO /\ Acts(t) =>
                songs'[tasks[t].song].lyrics = songs[tasks[t].song].lyrics]_vars

\* A retry of a record that failed at audio has run to COMPLETE through audio, art
\* and video.
C5_Witness ==
    \E t \in TaskIds :
        /\ RetryOfRecorded(t)
        /\ tasks[t].start = GENERATING_AUDIO
        /\ tasks[t].pc = "done"
        /\ tasks[t].log = <<GENERATING_AUDIO, GENERATING_ART, GENERATING_VIDEO>>
        /\ songs[tasks[t].song].status = COMPLETE

\* C6: a retry request is accepted only when the stored record of the song exists, is
\* in ERROR with a failedStep, and the failedStep of the request equals the stored one.
C6_RetryOnlyOfRecordedFailure ==
    \A hasSong \in BOOLEAN, id \in 0..MaxSongs, fs \in ReqFailedSteps :
        RetryCode(hasSong, id, fs) = 200 =>
            /\ id \in Ids
            /\ songs[id].status = ERROR
            /\ songs[id].failedStep = fs

\* C7: once the status of a song is COMPLETE, the only status change that follows is
\* the one of an accepted regenerate-video request, and it leads to GENERATING_VIDEO.
C7_CompleteLeftOnlyByRegenerate ==
    [][\A id \in Ids :
          songs[id].status = COMPLETE /\ songs'[id].status # COMPLETE =>
              /\ songs'[id].status = GENERATING_VIDEO
              /\ \E t \in TaskIds :
                    /\ tasks[t].kind = "regenerate"
                    /\ tasks[t].song = id
                    /\ tasks[t].pc = "RV_save"
                    /\ tasks'[t].pc = "V_presave"]_vars

\* C8: an accepted regenerate-video request leaves lyrics, audioUrl and coverArtUrl as
\* they were at the request until its run ends; videoUrl and thumbnailUrl are cleared
\* at the request, and the run ends with both set and status COMPLETE, or with status
\* ERROR and failedStep GENERATING_VIDEO.
C8_RegenerateKeepsArtifacts ==
    /\ [](\A t \in TaskIds :
            tasks[t].kind = "regenerate" /\ Accepted(t) /\ tasks[t].pc # "done" =>
                Artifacts(songs[tasks[t].song]) = tasks[t].base)
    /\ [][\A t \in TaskIds :
            /\ (tasks[t].pc = "idle" /\ tasks'[t].kind = "regenerate" /\ tasks'[t].pc = "RV_save" =>
                   /\ songs'[tasks'[t].song].videoUrl = Undef
                   /\ songs'[tasks'[t].song].thumbnailUrl = Undef)
            /\ (tasks[t].kind = "regenerate" /\ tasks[t].pc # "V_finalsave"
                    /\ tasks'[t].pc = "V_finalsave" =>
                   LET r == songs'[tasks[t].song]
                   IN \/ /\ r.status = COMPLETE
                         /\ Truthy(r.videoUrl)
                         /\ Truthy(r.thumbnailUrl)
                      \/ /\ r.status = ERROR
                         /\ r.failedStep = GENERATING_VIDEO)]_vars

\* Task t learns in this step that the video adapter failed: generateVideos or
\* getVideosOperation threw, or the finished operation has no download link.
VideoAdapterFails(t) ==
    /\ tasks[t].pc \in {"V_submit", "V_pollsave", "V_poll"}
    /\ tasks'[t].pc \in {"V_mocksave", "V_finalsave"}
    /\ tasks'[t].op \in {"threw", "nolink"}

\* C9: when the video adapter fails, the video sub-pipeline leaves the song with
\* status ERROR and failedStep GENERATING_VIDEO, and lyrics, audioUrl and coverArtUrl
\* are what they were when the sub-pipeline started.
C9_VideoFailureRecorded ==
    [][\A t \in TaskIds :
          VideoAdapterFails(t) =>
              LET r == songs'[tasks[t].song]
              IN /\ r.status = ERROR
                 /\ r.failedStep = GENERATING_VIDEO
                 /\ Artifacts(r) = tasks[t].vbase]_vars

\* C10: for every song id, at most one run (main pipeline or video sub-pipeline) is
\* executing at any moment.
C10_OneRunPerSong ==
    \A id \in SongIds :
        Cardinality({t \in TaskIds : tasks[t].song = id /\ Running(t)}) <= 1

\* C11: a step, a failure or a retry of the pipeline of one song never changes any
\* field of the in-memory record of a different song, under any interleaving.
C11_SongsIndependent ==
    [][\A t \in TaskIds :
          Acts(t) =>
              \A id \in Ids : id # tasks'[t].song => songs'[id] = songs[id]]_vars

\* A retry of one song has entered its second step while the generate run of another
\* song is in its catch block.
C11_Witness ==
    \E t, u \in TaskIds :
        /\ tasks[t].kind = "retry" /\ Running(t) /\ Len(tasks[t].log) >= 2
        /\ tasks[u].kind = "generate" /\ tasks[u].pc = "E_save"
        /\ tasks[u].song # tasks[t].song
        /\ songs[tasks[u].song].status = ERROR

\* A step function of task t throws in this step: the catch block of the run is entered.
StepThrows(t) ==
    /\ tasks[t].pc \in {"L_call", "A_call", "R_call"}
    /\ tasks'[t].pc = "E_save"

\* The statusMessage a failed run can leave: the message of the error, or the fallback.
FailureMessages == (ErrMsgs \ {""}) \cup {"An unknown error occurred during generation."}

\* C12: when a step of the main pipeline throws, the catch block leaves the record in
\* status ERROR with failedStep the status that was active when the step threw and
\* statusMessage the message of the error or the generic fallback; the run then enters
\* no further step and no video sub-pipeline: it awaits its save, writes nothing more
\* to the record and returns.
C12_StepFailureRecorded ==
    [][\A t \in TaskIds :
          /\ StepThrows(t) =>
                LET r == songs'[tasks[t].song]
                IN /\ r.status = ERROR
                   /\ r.failedStep = songs[tasks[t].song].status
                   /\ r.statusMessage \in FailureMessages
                   /\ tasks'[t].log = tasks[t].log
          /\ tasks[t].pc = "E_save" /\ Acts(t) =>
                /\ tasks'[t].pc = "done"
                /\ tasks'[t].log = tasks[t].log
                /\ songs' = songs]_vars

\* A run whose audio step threw "rate limited" has returned: it entered lyrics and audio
\* only, and the record carries the failure.
C12_Witness ==
    \E t \in TaskIds :
        /\ tasks[t].pc = "done"
        /\ tasks[t].log = <<GENERATING_LYRICS, GENERATING_AUDIO>>
        /\ songs[tasks[t].song].status = ERROR
        /\ songs[tasks[t].song].failedStep = GENERATING_AUDIO
        /\ songs[tasks[t].song].statusMessage = "rate limited"

\* The artifact of the step before status st is in db.json as it is in memory.
Persisted(id, st) ==
    /\ id \in DOMAIN disk
    /\ CASE st = GENERATING_AUDIO -> disk[id].lyrics = songs[id].lyrics
         [] st = GENERATING_ART -> disk[id].audioUrl = songs[id].audioUrl
         [] st = GENERATING_VIDEO -> disk[id].coverArtUrl = songs[id].coverArtUrl
         [] st = COMPLETE -> disk[id].videoUrl = songs[id].videoUrl
         [] OTHER -> TRUE

\* C13: at every moment at which the in-memory status of a song is the state after a
\* step (GENERATING_AUDIO, GENERATING_ART, GENERATING_VIDEO, COMPLETE), db.json
\* already contains the artifact of that step for the song.
C13_ArtifactPersistedBeforeAdvance ==
    \A id \in Ids :
        songs[id].status \in {GENERATING_AUDIO, GENERATING_ART, GENERATING_VIDEO, COMPLETE}
            => Persisted(id, songs[id].status)

\* C14: whenever no request handler, no pipeline step and no disk write is in
\* progress, db.json equals the in-memory store.
C14_DiskEqualsStoreWhenQuiet ==
    Quiet /\ proc = "listening" => disk = songs

\* C15: a request answered with a validation error (400 or 404) leaves the in-memory
\* store and db.json unchanged and starts no run: its handler has returned.
C15_RejectionChangesNothing ==
    [][\A t \in TaskIds :
          Acts(t) /\ tasks'[t].resp.code \in {400, 404} =>
              /\ songs' = songs
              /\ disk' = disk
              /\ tasks[t].pc = "idle"
              /\ tasks'[t].pc = "rejected"
              /\ tasks'[t].log = << >>]_vars

\* A song is in the store, a retry for an id that is not was answered 404.
C15_Witness ==
    \E t \in TaskIds :
        /\ tasks[t].pc = "rejected"
        /\ tasks[t].kind = "retry"
        /\ tasks[t].resp.code = 404
        /\ Ids # {}
        /\ disk = songs

\* C16: every generate request answered 201, whatever optional fields it carries, is
\* answered with a record of status GENERATING_LYRICS and a non-empty id that differs
\* from the id of every other record in the store.
C16_GenerateResponse ==
    \A t \in TaskIds :
        tasks[t].resp.code = 201 =>
            /\ tasks[t].resp.status = GENERATING_LYRICS
            /\ tasks[t].resp.id # 0
            /\ \A k \in Ids \ {tasks[t].song} : songs[k].id # tasks[t].resp.id

\* C17: in every reachable state the id field of each record equals the key under
\* which the record is stored (so no two records share an id), and no step changes the
\* id of an existing record.
C17_IdImmutableUnique ==
    /\ [](\A k \in Ids : songs[k].id = k)
    /\ [][\A k \in Ids : k \in DOMAIN songs' /\ songs'[k].id = songs[k].id]_vars

\* C18: at process start a missing db.json yields an empty store and the server then
\* listens; a db.json that cannot be read or parsed makes the process exit without
\* ever listening; and no request is handled while the process is not listening, that
\* is before loadSongs has finished.
C18_LoadBeforeRequests ==
    /\ [](proc # "listening" => \A t \in TaskIds : tasks[t].pc = "idle")
    /\ [](boot = "error" => proc # "listening" /\ songs = << >>)
    /\ [][proc = "loading" /\ proc' # "loading" =>
            /\ boot = "ENOENT" => proc' = "listening" /\ songs' = << >>
            /\ boot = "data" => proc' = "listening" /\ songs' = disk
            /\ boot = "error" => proc' = "exited" /\ songs' = songs]_vars

\* db.json was missing: the store started empty, and a generate request has since been
\* accepted and its run has ended.
C18_Witness ==
    /\ boot = "ENOENT"
    /\ proc = "listening"
    /\ \E t \in TaskIds :
          tasks[t].kind = "generate" /\ tasks[t].pc = "done" /\ tasks[t].song \in Ids

\* C19: a song id leaves the client's polling set only in the step in which a poll of
\* that song has returned it with status COMPLETE or ERROR.
C19_PolledUntilTerminal ==
    [][\A id \in SongIds :
          id \in client.pollingRef /\ id \notin client'.pollingRef
             => /\ client.tick.pc = "reply"
                /\ Head(client.tick.ids) = id
                /\ Terminal(client.tick.reply)]_vars

\* C20: without SUNO_API_KEY no call of generateSunoAudio throws, and two calls with
\* the same lyrics, prompt, genre and vocal gender that have returned have returned
\* the same audioUrl.
C20_PlaceholderDeterministic ==
    audio.file # "none" /\ ~audio.key =>
       /\ \A r \in Runs : audio.run[r].pc # "thrown"
       /\ \A r, q \in Runs :
             audio.run[r].pc = "returned" /\ audio.run[q].pc = "returned"
                => audio.run[r].url = audio.run[q].url

C22_PollingBeforeComplete ==
    [][\A t \in TaskIds :
          Acts(t) /\ tasks'[t].song \in DOMAIN songs' =>
             LET id == tasks'[t].song
             IN /\ tasks'[t].pc = "V_presave" => songs'[id].status = GENERATING_VIDEO
                /\ tasks'[t].pc = "V_pollsave" =>
                      tasks[t].pc = "V_submit" /\ songs'[id].status = POLLING_VIDEO
                /\ (/\ Running(t)
                    /\ songs'[id].status = COMPLETE
                    /\ songs[id].status # COMPLETE)
                      => tasks[t].pc \in {"V_pollsave", "V_poll"}]_vars

\* C23: a run started with a startStep that is none of GENERATING_LYRICS,
\* GENERATING_AUDIO, GENERATING_ART enters the step functions from the first one on,
\* in the pipeline order, and the step that starts it does not make the song ERROR.
C23_UnknownStartFallsBack ==
    /\ [](\A t \in TaskIds :
            Accepted(t) /\ tasks[t].kind = "retry" /\ FindIndex(tasks[t].start) < 0
            /\ tasks[t].pc # "T_save"
               => /\ tasks[t].log # << >>
                  /\ IsPrefix(tasks[t].log, FullPipeline))
    /\ [][\A t \in TaskIds :
             tasks[t].pc = "T_save" /\ Acts(t) /\ FindIndex(tasks[t].start) < 0
                => /\ Running(t)'
                   /\ tasks'[t].pc # "E_save"
                   /\ songs'[tasks[t].song].status = ERROR
                         => songs[tasks[t].song].status = ERROR]_vars

\* A retry whose body named "bogus" as the failed step has run the whole pipeline, and
\* the song is COMPLETE.
C23_Witness ==
    \E t \in TaskIds :
        /\ tasks[t].kind = "retry"
        /\ tasks[t].start = Bogus
        /\ tasks[t].pc = "done"
        /\ tasks[t].log = FullPipeline
        /\ songs[tasks[t].song].status = COMPLETE

\* The write that task t awaited has failed in this step: db.json is as it was, not
\* the snapshot taken at the call.
WriteFailed(t) ==
    /\ tasks[t].snap # NoSnap
    /\ Acts(t)
    /\ disk' = disk
    /\ disk # tasks[t].snap

\* Where the code goes on after each await of saveSongs.
AfterSave(pc) ==
    CASE pc = "G_save" -> {"L_presave", "L_postsave"}
      [] pc = "T_save" -> {"L_presave", "L_postsave", "A_presave", "R_presave"}
      [] pc = "RV_save" -> {"V_presave"}
      [] pc = "L_presave" -> {"L_call"}
      [] pc = "A_presave" -> {"A_call"}
      [] pc = "R_presave" -> {"R_call"}
      [] pc = "L_postsave" -> {"A_presave"}
      [] pc = "A_postsave" -> {"R_presave"}
      [] pc = "R_postsave" -> {"V_presave"}
      [] pc = "V_presave" -> {"V_submit"}
      [] pc = "V_pollsave" -> {"V_poll", "V_finalsave"}
      [] pc = "V_finalsave" -> {"done"}
      [] pc = "E_save" -> {"done"}
      [] OTHER -> {}

\* C24: when the write a handler or run awaits fails, the code goes on as after a
\* write that succeeded: no catch block is entered, the handler answers 200 or 201,
\* the records of the other songs and the artifacts of this one are as they were, and
\* the song does not become ERROR nor its failedStep change (unless the video
\* operation had already finished without a download link).
C24_FailedWriteIgnored ==
    [][\A t \in TaskIds :
          WriteFailed(t) =>
             LET id == tasks[t].song
             IN /\ tasks'[t].pc \in AfterSave(tasks[t].pc)
                /\ tasks[t].pc \in {"G_save", "T_save", "RV_save"}
                      => tasks'[t].resp.code \in {200, 201}
                /\ \A k \in DOMAIN songs : k # id => songs'[k] = songs[k]
                /\ Artifacts(songs'[id]) = Artifacts(songs[id])
                /\ \/ tasks[t].pc = "V_pollsave" /\ tasks[t].op = "nolink"
                   \/ /\ songs'[id].failedStep = songs[id].failedStep
                      /\ songs'[id].status = ERROR => songs[id].status = ERROR]_vars

\* Every write of a generate request and of its run has failed: db.json is still
\* empty, the run has returned and the song is COMPLETE in memory.
C24_Witness ==
    /\ fsys = "flaky"
    /\ disk = << >>
    /\ \E t \in TaskIds :
          /\ tasks[t].kind = "generate"
          /\ tasks[t].pc = "done"
          /\ songs[tasks[t].song].status = COMPLETE

\* C25: once the record of a generate request that supplied custom lyrics is in the
\* store, its lyrics are those custom lyrics, and no run of the song is inside the
\* lyrics step (at its save or at the call of the lyrics adapter), where it could fail.
C25_CustomLyricsKept ==
    \A t \in TaskIds :
        (/\ tasks[t].kind = "generate"
         /\ TruthyText(tasks[t].custom)
         /\ tasks[t].pc \notin {"idle", "G_meta", "failed", "rejected"})
           => /\ tasks[t].song \in DOMAIN songs
              /\ songs[tasks[t].song].lyrics = tasks[t].custom
              /\ \A u \in TaskIds :
                    tasks[u].song = tasks[t].song
                       => tasks[u].pc \notin {"L_presave", "L_call"}

\* The awaits of saveSongs in the three handlers.
HandlerSaves == {"G_save", "T_save", "RV_save"}

\* C26: in the handlers of generate, retry and regenerate-video the record is written
\* in memory and the save of the whole store (taken after that write) is awaited
\* with no response sent and no step of the run done; when the save returns the
\* response is sent with the record as it is then, and only then the run starts:
\* a run that is under way or over has its response sent.
C26_SaveRespondRun ==
    /\ [](\A t \in TaskIds :
            /\ tasks[t].pc \in HandlerSaves
                  => /\ tasks[t].resp = NoResp
                     /\ tasks[t].log = << >>
                     /\ tasks[t].song \in DOMAIN songs
                     /\ tasks[t].snap # NoSnap
            /\ Running(t) \/ tasks[t].pc = "done"
                  => tasks[t].resp.code \in {200, 201})
    /\ [][\A t \in TaskIds :
             /\ tasks[t].pc \notin HandlerSaves /\ tasks'[t].pc \in HandlerSaves
                   => tasks'[t].snap = songs'
             /\ ~Running(t) /\ Running(t)'
                   => /\ tasks[t].pc \in HandlerSaves
                      /\ disk' = tasks[t].snap
                      /\ tasks'[t].resp =
                            Response(IF tasks[t].kind = "generate" THEN 201 ELSE 200,
                                     songs[tasks[t].song])]_vars

\* The run of a generate request and the run of a regenerate-video request are both
\* under way, each after its response.
C26_Witness ==
    \E t, u \in TaskIds :
        /\ tasks[t].kind = "generate" /\ Running(t) /\ tasks[t].resp.code = 201
        /\ tasks[t].log # << >>
        /\ tasks[u].kind = "regenerate" /\ Running(u) /\ tasks[u].resp.code = 200
        /\ tasks[u].log # << >>

\* C27: in every reachable state the failedStep of a record is undefined or one of
\* GENERATING_LYRICS, GENERATING_AUDIO, GENERATING_ART, GENERATING_VIDEO.
C27_FailedStepIsAStep ==
    \A id \in DOMAIN songs :
        songs[id].failedStep \in
            {Undef, GENERATING_LYRICS, GENERATING_AUDIO, GENERATING_ART, GENERATING_VIDEO}

\* C28: when the metadata call of a generate request throws, the request is answered
\* 500, the store and db.json are left as they were, and from then on the id drawn
\* for the request is in no store, file or pending snapshot and no run of it starts.
C28_MetadataFailureStoresNothing ==
    /\ [](\A t \in TaskIds :
            tasks[t].pc = "failed"
               => /\ tasks[t].resp.code = 500
                  /\ tasks[t].log = << >>
                  /\ tasks[t].song \notin DOMAIN songs
                  /\ tasks[t].song \notin DOMAIN disk
                  /\ \A u \in TaskIds : tasks[t].song \notin DOMAIN tasks[u].snap)
    /\ [][\A t \in TaskIds :
             /\ tasks[t].pc = "G_meta" /\ tasks'[t].pc = "failed"
                   => songs' = songs /\ disk' = disk
             /\ tasks[t].pc = "failed" => tasks'[t] = tasks[t]]_vars

\* The metadata call of one generate request threw, and the song of another one is
\* in the store.
C28_Witness ==
    \E t, u \in TaskIds :
        /\ tasks[t].kind = "generate" /\ tasks[t].pc = "failed"
        /\ tasks[u].kind = "generate" /\ tasks[u].song \in DOMAIN songs

\* C29: when every request of the browser succeeds and the server goes on, a song id
\* that is in the polling set (put there by fetchSongs, or added by generate, retry or
\* regenerate-video while a polling pass may be running) leads to a state where it has
\* left the set, the stored song is COMPLETE or ERROR and the copy the browser shows
\* has the status of the stored song.
C29_ClientConverges ==
    \A id \in SongIds :
        (id \in client.pollingRef)
           ~> /\ id \notin client.pollingRef
              /\ id \in DOMAIN songs
              /\ Terminal(songs[id].status)
              /\ view.songs[id].status = songs[id].status

\* The song of id was in the snapshot loaded at the start: no generate request of this
\* process made it.
LoadedAtStart(id) ==
    /\ boot = "data"
    /\ proc = "listening"
    /\ id \in DOMAIN songs
    /\ \A t \in TaskIds : ~(tasks[t].kind = "generate" /\ tasks[t].song = id)

\* A retry or regenerate-video request for the song has been accepted.
RequestAccepted(tk, id) ==
    \E t \in TaskIds : tk[t].kind \in {"retry", "regenerate"} /\ tk[t].song = id

\* C30: loading the snapshot starts no run: a record loaded with a status that is
\* neither COMPLETE nor ERROR keeps that status in every step, up to the step that
\* accepts a retry or regenerate-video request for it.
C30_LoadedStatusStays ==
    [][\A id \in DOMAIN songs :
          (LoadedAtStart(id) /\ ~Terminal(songs[id].status) /\ ~RequestAccepted(tasks', id))
             => /\ id \in DOMAIN songs'
                /\ songs'[id].status = songs[id].status]_vars

\* The song loaded in the middle of its audio step still has that status, no retry or
\* regenerate-video request was made for it, and meanwhile the run of another song,
\* made by a generate request, has returned.
C30_Witness ==
    /\ LoadedAtStart(1)
    /\ songs[1].status = GENERATING_AUDIO
    /\ ~RequestAccepted(tasks, 1)
    /\ \E t \in TaskIds :
          tasks[t].kind = "generate" /\ tasks[t].pc = "done" /\ tasks[t].song # 1
====
